---- MODULE Spec2Model ----
(***************************************************************************)
(* A model of proto.c, a virtual machine for a 16-bit LC-3 like            *)
(* instruction set: the image loader, the fetch/decode/execute loop of     *)
(* main, the sixteen opcodes and the trap routines.                        *)
(*                                                                         *)
(* A Word is a uint16_t, a number in 0..65535.  memory[] is a zero         *)
(* initialised global of 65536 Words; it is represented by the function    *)
(* of its non-zero Words (MemGet reads 0 everywhere else).                 *)
(***************************************************************************)
EXTENDS Integers, Sequences, FiniteSets, TLC

\* ---------------------------------------------------------------- bounds
\* Longest image (in data Words) the loader is given.
MaxImage == 2
\* Most instructions the execution loop runs.
MaxSteps == 2

\* ----------------------------------------------------- program constants
MAX_MEMORY == 65536
R_R0 == 0
R_R7 == 7
R_PC == 8
R_COND == 9
R_COUNT == 10
FL_POS == 1
FL_ZRO == 2
FL_NEG == 4
OP_BR == 0
OP_ADD == 1
OP_LD == 2
OP_ST == 3
OP_JSR == 4
OP_AND == 5
OP_LDR == 6
OP_STR == 7
OP_RTI == 8
OP_NOT == 9
OP_LDI == 10
OP_STI == 11
OP_JMP == 12
OP_RES == 13
OP_LEA == 14
OP_TRAP == 15
TRAP_GETC == 32
TRAP_OUT == 33
TRAP_PUTS == 34
TRAP_IN == 35
TRAP_PUTSP == 36
TRAP_HALT == 37
MR_KBSR == 65024
MR_KBDR == 65026
PC_START == 12288
\* getchar() returns EOF at the end of the input.
EOF == -1

\* ------------------------------------------------------- uint16_t and bits
\* Conversion of an int to uint16_t.
U16(x) == x % 65536

\* x >> n on an unsigned value.
Shr(x, n) == x \div (2 ^ n)

\* The C operator & on non-negative ints.
RECURSIVE BitAnd(_, _)
BitAnd(a, b) ==
    IF a = 0 \/ b = 0 THEN 0
    ELSE (a % 2) * (b % 2) + 2 * BitAnd(a \div 2, b \div 2)

\* The C operator | on non-negative ints.
RECURSIVE BitOr(_, _)
BitOr(a, b) ==
    IF a = 0 THEN b
    ELSE IF b = 0 THEN a
    ELSE (IF a % 2 = 1 \/ b % 2 = 1 THEN 1 ELSE 0) + 2 * BitOr(a \div 2, b \div 2)

\* The C operator ~ on a uint16_t, converted back to uint16_t.
BitNot16(a) == 65535 - a

\* sign_extend testing bit bit_count instead of bit bit_count - 1.
sign_extend_WrongBit(x, bit_count) ==
    IF BitAnd(Shr(x, bit_count), 1) # 0
    THEN U16(BitOr(x, 65535 * (2 ^ bit_count)))
    ELSE x

\* uint16_t sign_extend(uint16_t x, int bit_count): 0xFFFF << bit_count is an
\* int, the | is done in int and the assignment to x truncates to 16 bits.
sign_extend(x, bit_count) ==
    IF BitAnd(Shr(x, bit_count - 1), 1) # 0
    THEN U16(BitOr(x, 65535 * (2 ^ bit_count)))
    ELSE x

\* uint16_t swap16(uint16_t x): (x << 8) | (x >> 8), truncated to 16 bits.
swap16(x) == U16(BitOr(x * 256, Shr(x, 8)))

\* ---------------------------------------------------------------- memory
MemGet(m, a) == IF a \in DOMAIN m THEN m[a] ELSE 0

MemSet(m, a, v) ==
    IF v = 0
    THEN [x \in DOMAIN m \ {a} |-> m[x]]
    ELSE [x \in DOMAIN m \cup {a} |-> IF x = a THEN v ELSE m[x]]

\* void mem_write(uint16_t address, uint16_t val)
mem_write(m, address, val) == MemSet(m, address, val)

\* What the keyboard offers at one poll: NoKey when check_key() returns 0,
\* else the value getchar() returns (a byte, or EOF).
NoKey == -2
InChars == {EOF, 0, 65}
Keys == {NoKey} \cup InChars

\* The keyboard matters to a read of MR_KBSR only: check_key() is not called
\* for any other address.
KeysAt(address) == IF address = MR_KBSR THEN Keys ELSE {NoKey}

\* mem_read_mem with the else branch (memory[MR_KBSR] = 0) left out.
mem_read_mem_StaleStatus(m, address, k) ==
    IF address = MR_KBSR /\ k # NoKey
    THEN MemSet(MemSet(m, MR_KBSR, 32768), MR_KBDR, U16(k))
    ELSE m

\* The memory after uint16_t mem_read(uint16_t address) with keyboard k.
mem_read_mem(m, address, k) ==
    IF address = MR_KBSR
    THEN IF k # NoKey
         THEN MemSet(MemSet(m, MR_KBSR, 32768), MR_KBDR, U16(k))
         ELSE MemSet(m, MR_KBSR, 0)
    ELSE m

\* The Word uint16_t mem_read(uint16_t address) returns with keyboard k.
mem_read(m, address, k) == MemGet(mem_read_mem(m, address, k), address)

\* update_flags with the sign test dropped.
update_flags_NoSign(regs, r) ==
    IF regs[r] = 0 THEN FL_ZRO ELSE FL_POS

\* void update_flags(uint16_t r): the new COND, from registers regs.
update_flags(regs, r) ==
    IF regs[r] = 0 THEN FL_ZRO
    ELSE IF Shr(regs[r], 15) # 0 THEN FL_NEG
    ELSE FL_POS

\* SetAndFlag with the flag or-ed into COND (|=) instead of assigned.
SetAndFlag_OrFlag(regs, r, v) ==
    LET w == [regs EXCEPT ![r] = v]
    IN  [w EXCEPT ![R_COND] = BitOr(@, update_flags(w, r))]

\* registers after registers[r] = v; update_flags(r).
SetAndFlag(regs, r, v) ==
    LET w == [regs EXCEPT ![r] = v]
    IN  [w EXCEPT ![R_COND] = update_flags(w, r)]

\* ------------------------------------------------------------ the loader
\* What fread(&x, sizeof(uint16_t), 1, file) stores in x on the little-endian
\* host for a Word w the file holds big-endian: the file's first byte (the
\* high byte of w) becomes the low byte of x.
fread16(w) == Shr(w, 8) + 256 * (w % 256)

Min(a, b) == IF a < b THEN a ELSE b

\* The while (read-- > 0) loop of read_image_file: data[i..read] go to p, p+1, ...
RECURSIVE StoreWords(_, _, _, _, _)
StoreWords(m, p, data, i, read) ==
    IF i > read THEN m
    ELSE StoreWords(MemSet(m, p, swap16(fread16(data[i]))), p + 1, data, i + 1, read)

\* void read_image_file(FILE* file): the memory after loading file.
read_image_file(m, file) ==
    LET origin == swap16(fread16(file.origin))
        max_read == U16(MAX_MEMORY - origin)
        read == Min(Len(file.data), max_read)
    IN  StoreWords(m, origin, file.data, 1, read)

\* ------------------------------------------------------------ the inputs
\* The instruction Words the images are made of (big-endian in the file).
ImageWords ==
    { 4129,  \* ADD  R0, R0, #1
      4159,  \* ADD  R0, R0, #-1
      4161,  \* ADD  R0, R1, R1
      20533, \* AND  R0, R0, #-11
      20545, \* AND  R0, R1, R1
      36927, \* NOT  R0, R0
      1025,  \* BRz  #1
      3070,  \* BRnp #-2
      49152, \* JMP  R0
      49600, \* JMP  R7 (RET)
      18434, \* JSR  #2
      16384, \* JSRR R0
      8192,  \* LD   R0, #0
      40960, \* LDI  R0, #0
      24576, \* LDR  R0, R0, #0
      57856, \* LEA  R1, #0
      12288, \* ST   R0, #0
      45056, \* STI  R0, #0
      28672, \* STR  R0, R0, #0
      61472, \* TRAP GETC
      61473, \* TRAP OUT
      61474, \* TRAP PUTS
      61475, \* TRAP IN
      61476, \* TRAP PUTSP
      61477, \* TRAP HALT
      61440, \* TRAP x00
      32768, \* RTI
      53248  \* RES
    }

\* The image files: an origin and up to MaxImage data Words.
ImageFiles ==
    { [origin |-> PC_START, data |-> d] :
        d \in UNION { [1..n -> ImageWords] : n \in 0..MaxImage } }

\* Words of character data: 'I', and 'H' with 'I' packed in the high byte.
DataWords == {73, 18760}

\* The data files: up to MaxImage Words of character data, to be loaded at the
\* first, the second or the last Word of memory.
DataFiles ==
    { [origin |-> o, data |-> d] :
        o \in {0, 1, 65535},
        d \in UNION { [1..n -> DataWords] : n \in 0..MaxImage } }

\* The instructions of the programs that print a data file.
StringWords ==
    { 4129,  \* ADD  R0, R0, #1
      36927, \* NOT  R0, R0
      61474, \* TRAP PUTS
      61476  \* TRAP PUTSP
    }

StringFiles ==
    { [origin |-> PC_START, data |-> d] :
        d \in UNION { [1..n -> StringWords] : n \in 0..MaxImage } }

\* The command lines (argv[1..]): no image at all, one image, one data file,
\* or a string program followed by a data file.
Argvs ==
    {<< >>}
        \cup { <<f>> : f \in ImageFiles \cup DataFiles }
        \cup { <<f, d>> : f \in StringFiles, d \in DataFiles }

\* The values an uninitialised uint16_t, or a read outside an array, can give.
IndetWords == {0, 1, MR_KBSR, 65535}

\* What a scan that ran off the end of memory[] still prints.
IndetTail == {<< >>, <<63>>}

\* printf("Enter a character : ")
Prompt == <<69, 110, 116, 101, 114, 32, 97, 32, 99, 104, 97, 114, 97, 99, 116,
            101, 114, 32, 58, 32>>

\* puts("HALT")
HaltMsg == <<72, 65, 76, 84, 10>>

\* ---------------------------------------------------------------- state
VARIABLES
    argv,          \* the image files named on the command line
    j,             \* main's loop index over argv
    memory,        \* uint16_t memory[MAX_MEMORY], its non-zero Words
    registers,     \* uint16_t registers[R_COUNT]
    running,       \* int running
    pc,            \* where main is: "load", "loop", "done", "exit1", "abort", "interrupted"
    tio,           \* the terminal: "original" or "raw"
    out,           \* the bytes written to stdout
    oob,           \* a read outside memory[] has happened
    instr,         \* the instruction fetched last (-1 before the first fetch)
    steps,         \* the number of instructions fetched
    preRegisters,  \* registers before the last fetch
    preMemory,     \* memory before the last fetch
    preOut,        \* out before the last fetch
    scanned,       \* the indices of memory[] the last instruction's string scan read
    ret,           \* the return address of the last JSR while R7 is not rewritten
    call           \* one call of a helper function: its arguments and its result

vars == <<argv, j, memory, registers, running, pc, tio, out, oob, instr, steps,
          preRegisters, preMemory, preOut, scanned, ret, call>>

\* No helper call is being looked at.
NoCall == [fn |-> "none"]

NoRet == -1

Init ==
    /\ argv \in Argvs
    /\ j = 1
    /\ memory = << >>
    /\ registers = [r \in 0..(R_COUNT - 1) |-> 0]
    /\ running = 0
    /\ pc = "load"
    /\ tio = "original"
    /\ out = << >>
    /\ oob = FALSE
    /\ instr = -1
    /\ steps = 0
    /\ preRegisters = [r \in 0..(R_COUNT - 1) |-> 0]
    /\ preMemory = << >>
    /\ preOut = << >>
    /\ scanned = {}
    /\ ret = NoRet
    /\ call = NoCall

\* ------------------------------------------------------- main, before the loop
\* if (argc < 2): usage, exit(1)
Usage ==
    /\ pc = "load" /\ Len(argv) = 0
    /\ pc' = "exit1"
    /\ UNCHANGED <<call, preOut, scanned, argv, j, memory, registers, running, tio, out, oob, instr,
                   steps, preRegisters, preMemory, ret>>

\* read_image(argv[j]) succeeds
ReadImage ==
    /\ pc = "load" /\ j <= Len(argv)
    /\ memory' = read_image_file(memory, argv[j])
    /\ j' = j + 1
    /\ UNCHANGED <<call, preOut, scanned, argv, registers, running, pc, tio, out, oob, instr, steps,
                   preRegisters, preMemory, ret>>

\* read_image(argv[j]) fails: fopen returns NULL, exit(1)
ReadImageFails ==
    /\ pc = "load" /\ j <= Len(argv)
    /\ pc' = "exit1"
    /\ UNCHANGED <<call, preOut, scanned, argv, j, memory, registers, running, tio, out, oob, instr,
                   steps, preRegisters, preMemory, ret>>

\* signal, disable_input_buffering, COND = FL_ZRO, PC = PC_START, running = 1
Start ==
    /\ pc = "load" /\ Len(argv) > 0 /\ j > Len(argv)
    /\ registers' = [registers EXCEPT ![R_COND] = FL_ZRO, ![R_PC] = PC_START]
    /\ running' = 1
    /\ tio' = "raw"
    /\ pc' = "loop"
    /\ UNCHANGED <<call, preOut, scanned, argv, j, memory, out, oob, instr, steps, preRegisters,
                   preMemory, ret>>

\* ------------------------------------------------------------- the fetch
\* while (running), and the bound on the instructions run
Cycling == pc = "loop" /\ running = 1 /\ steps < MaxSteps

\* uint16_t instr = mem_read(registers[R_PC]++), with keyboard k at the read
FetchInstr(k) == mem_read(memory, registers[R_PC], k)
FetchMem(k) == mem_read_mem(memory, registers[R_PC], k)
FetchRegs == [registers EXCEPT ![R_PC] = U16(@ + 1)]
FetchKeys == KeysAt(registers[R_PC])

\* uint16_t op = instr >> 12
Opcode(ins) == Shr(ins, 12)
\* (instr >> 9) & 0x7, the destination (or source) register r0
DR(ins) == BitAnd(Shr(ins, 9), 7)
\* (instr >> 6) & 0x7, the first operand (or base) register r1
SR1(ins) == BitAnd(Shr(ins, 6), 7)
\* sign_extend(instr & 0x1FF, 9)
PcOffset9(ins) == sign_extend(BitAnd(ins, 511), 9)
\* sign_extend(instr & 0x3F, 6)
Offset6(ins) == sign_extend(BitAnd(ins, 63), 6)

\* Whether the instruction names R7 as its destination, or is a TRAP
\* (registers[R_R7] = registers[R_PC]).
WritesR7(ins) ==
    \/ Opcode(ins) = OP_TRAP
    \/ /\ Opcode(ins) \in {OP_ADD, OP_AND, OP_NOT, OP_LD, OP_LDI, OP_LDR, OP_LEA}
       /\ DR(ins) = R_R7

\* The return address a JSR leaves in R7, until R7 is written again.
NextRet(ins) ==
    IF Opcode(ins) = OP_JSR THEN U16(registers[R_PC] + 1)
    ELSE IF WritesR7(ins) THEN NoRet
    ELSE ret

\* instr & 0xFF
TrapVector(ins) == BitAnd(ins, 255)

\* The first address at or after a whose Word is zero; MAX_MEMORY when the
\* while (*c) scan reaches the end of memory[] without meeting one.
RECURSIVE ScanEnd(_, _)
ScanEnd(m, a) ==
    IF a >= MAX_MEMORY THEN MAX_MEMORY
    ELSE IF MemGet(m, a) = 0 THEN a
    ELSE ScanEnd(m, a + 1)

\* The indices of memory[] the while (*c) scan of TRAP_PUTS and TRAP_PUTSP
\* reads (the terminator included; MAX_MEMORY is the Word after memory[]);
\* empty for every other instruction.
Scanned(ins, regs, mem) ==
    IF Opcode(ins) = OP_TRAP /\ TrapVector(ins) \in {TRAP_PUTS, TRAP_PUTSP}
    THEN regs[R_R0] .. ScanEnd(mem, regs[R_R0])
    ELSE {}

\* The end of one pass of the loop body that neither prints nor stops.
Commit(ins, regs, mem) ==
    /\ registers' = regs
    /\ memory' = mem
    /\ instr' = ins
    /\ steps' = steps + 1
    /\ preRegisters' = registers
    /\ preMemory' = memory
    /\ preOut' = out
    /\ scanned' = {}
    /\ ret' = NextRet(ins)
    /\ UNCHANGED <<call, argv, j, running, pc, tio, out, oob>>

\* The end of one pass through case OP_TRAP.
CommitTrap(ins, regs, mem, o, run, ob) ==
    /\ registers' = regs
    /\ memory' = mem
    /\ out' = o
    /\ running' = run
    /\ oob' = ob
    /\ instr' = ins
    /\ steps' = steps + 1
    /\ preRegisters' = registers
    /\ preMemory' = memory
    /\ preOut' = out
    /\ scanned' = Scanned(ins, regs, mem)
    /\ ret' = NextRet(ins)
    /\ UNCHANGED <<call, argv, j, pc, tio>>

\* ----------------------------------------------------------- the opcodes
\* Operand2 with imm5 used as it is, not sign extended.
Operand2_NoSignExtend(ins, regs) ==
    IF BitAnd(Shr(ins, 5), 1) # 0
    THEN BitAnd(ins, 31)
    ELSE regs[BitAnd(ins, 7)]

\* The second operand of ADD and AND: imm5 or registers[r2].
Operand2(ins, regs) ==
    IF BitAnd(Shr(ins, 5), 1) # 0
    THEN sign_extend(BitAnd(ins, 31), 5)
    ELSE regs[BitAnd(ins, 7)]

OpADD ==
    /\ Cycling
    /\ \E k \in FetchKeys :
        LET ins == FetchInstr(k)
            regs == FetchRegs
        IN  /\ Opcode(ins) = OP_ADD
            /\ Commit(ins,
                      SetAndFlag(regs, DR(ins), U16(regs[SR1(ins)] + Operand2(ins, regs))),
                      FetchMem(k))

OpAND ==
    /\ Cycling
    /\ \E k \in FetchKeys :
        LET ins == FetchInstr(k)
            regs == FetchRegs
        IN  /\ Opcode(ins) = OP_AND
            /\ Commit(ins,
                      SetAndFlag(regs, DR(ins), BitAnd(regs[SR1(ins)], Operand2(ins, regs))),
                      FetchMem(k))

OpNOT ==
    /\ Cycling
    /\ \E k \in FetchKeys :
        LET ins == FetchInstr(k)
            regs == FetchRegs
        IN  /\ Opcode(ins) = OP_NOT
            /\ Commit(ins, SetAndFlag(regs, DR(ins), BitNot16(regs[SR1(ins)])), FetchMem(k))

\* OpBR with the test of cond_flag against COND left out.
OpBR_Always ==
    /\ Cycling
    /\ \E k \in FetchKeys :
        LET ins == FetchInstr(k)
            regs == FetchRegs
        IN  /\ Opcode(ins) = OP_BR
            /\ Commit(ins, [regs EXCEPT ![R_PC] = U16(@ + PcOffset9(ins))], FetchMem(k))

OpBR ==
    /\ Cycling
    /\ \E k \in FetchKeys :
        LET ins == FetchInstr(k)
            regs == FetchRegs
            cond_flag == BitAnd(Shr(ins, 9), 7)
        IN  /\ Opcode(ins) = OP_BR
            /\ Commit(ins,
                      IF BitAnd(cond_flag, regs[R_COND]) # 0
                      THEN [regs EXCEPT ![R_PC] = U16(@ + PcOffset9(ins))]
                      ELSE regs,
                      FetchMem(k))

\* registers[R_PC] += registers[r1]
OpJMP ==
    /\ Cycling
    /\ \E k \in FetchKeys :
        LET ins == FetchInstr(k)
            regs == FetchRegs
        IN  /\ Opcode(ins) = OP_JMP
            /\ Commit(ins, [regs EXCEPT ![R_PC] = U16(@ + regs[SR1(ins)])], FetchMem(k))

\* registers[r1] with r1 never assigned in this pass of the loop: r1 is any
\* index; an index below R_COUNT reads that register, any other reads outside
\* registers[] (the index R_COUNT stands for all of those, g for what is read).
IndetRegister(regs, r1, g) == IF r1 < R_COUNT THEN regs[r1] ELSE g

OpJSR ==
    /\ Cycling
    /\ \E k \in FetchKeys, r1 \in 0..R_COUNT, g \in IndetWords :
        LET ins == FetchInstr(k)
            long_flag == BitAnd(Shr(ins, 11), 1)
            regs == [FetchRegs EXCEPT ![R_R7] = FetchRegs[R_PC]]
        IN  /\ Opcode(ins) = OP_JSR
            /\ Commit(ins,
                      IF long_flag # 0
                      THEN [regs EXCEPT ![R_PC] = IndetRegister(regs, r1, g)]
                      ELSE regs,
                      FetchMem(k))

OpLD ==
    /\ Cycling
    /\ \E k \in FetchKeys :
        LET ins == FetchInstr(k)
            regs == FetchRegs
            address == U16(regs[R_PC] + PcOffset9(ins))
        IN  /\ Opcode(ins) = OP_LD
            /\ \E k2 \in KeysAt(address) :
                Commit(ins,
                       SetAndFlag(regs, DR(ins), mem_read(FetchMem(k), address, k2)),
                       mem_read_mem(FetchMem(k), address, k2))

\* pc_offset = mem_read(mem_read(registers[R_PC] + pc_offset)); update_flags(r0):
\* pc_offset is read before this pass of the loop assigns it (any Word), the
\* Word loaded goes to pc_offset, and registers[r0] is not written.
OpLDI ==
    /\ Cycling
    /\ \E k \in FetchKeys, pc_offset \in IndetWords :
        LET ins == FetchInstr(k)
            regs == FetchRegs
            inner == U16(regs[R_PC] + pc_offset)
        IN  /\ Opcode(ins) = OP_LDI
            /\ \E k2 \in KeysAt(inner) :
                LET mem1 == mem_read_mem(FetchMem(k), inner, k2)
                    outer == MemGet(mem1, inner)
                IN  \E k3 \in KeysAt(outer) :
                        Commit(ins,
                               [regs EXCEPT ![R_COND] = update_flags(regs, DR(ins))],
                               mem_read_mem(mem1, outer, k3))

OpLDR ==
    /\ Cycling
    /\ \E k \in FetchKeys :
        LET ins == FetchInstr(k)
            regs == FetchRegs
            address == U16(regs[SR1(ins)] + Offset6(ins))
        IN  /\ Opcode(ins) = OP_LDR
            /\ \E k2 \in KeysAt(address) :
                Commit(ins,
                       SetAndFlag(regs, DR(ins), mem_read(FetchMem(k), address, k2)),
                       mem_read_mem(FetchMem(k), address, k2))

OpLEA ==
    /\ Cycling
    /\ \E k \in FetchKeys :
        LET ins == FetchInstr(k)
            regs == FetchRegs
        IN  /\ Opcode(ins) = OP_LEA
            /\ Commit(ins,
                      SetAndFlag(regs, DR(ins), U16(regs[R_PC] + PcOffset9(ins))),
                      FetchMem(k))

\* OpST with the update_flags(r0) of the loads pasted in.
OpST_Flags ==
    /\ Cycling
    /\ \E k \in FetchKeys :
        LET ins == FetchInstr(k)
            regs == FetchRegs
        IN  /\ Opcode(ins) = OP_ST
            /\ Commit(ins, [regs EXCEPT ![R_COND] = update_flags(regs, DR(ins))],
                      mem_write(FetchMem(k), U16(regs[R_PC] + PcOffset9(ins)), regs[DR(ins)]))

OpST ==
    /\ Cycling
    /\ \E k \in FetchKeys :
        LET ins == FetchInstr(k)
            regs == FetchRegs
        IN  /\ Opcode(ins) = OP_ST
            /\ Commit(ins, regs,
                      mem_write(FetchMem(k), U16(regs[R_PC] + PcOffset9(ins)), regs[DR(ins)]))

\* OpSTI with the arguments of mem_write the other way round.
OpSTI_Reversed ==
    /\ Cycling
    /\ \E k \in FetchKeys :
        LET ins == FetchInstr(k)
            regs == FetchRegs
            pointer == U16(regs[R_PC] + PcOffset9(ins))
        IN  /\ Opcode(ins) = OP_STI
            /\ \E k2 \in KeysAt(pointer) :
                LET mem1 == mem_read_mem(FetchMem(k), pointer, k2)
                IN  Commit(ins, regs,
                           mem_write(mem1, regs[DR(ins)], MemGet(mem1, pointer)))

OpSTI ==
    /\ Cycling
    /\ \E k \in FetchKeys :
        LET ins == FetchInstr(k)
            regs == FetchRegs
            pointer == U16(regs[R_PC] + PcOffset9(ins))
        IN  /\ Opcode(ins) = OP_STI
            /\ \E k2 \in KeysAt(pointer) :
                LET mem1 == mem_read_mem(FetchMem(k), pointer, k2)
                IN  Commit(ins, regs,
                           mem_write(mem1, MemGet(mem1, pointer), regs[DR(ins)]))

OpSTR ==
    /\ Cycling
    /\ \E k \in FetchKeys :
        LET ins == FetchInstr(k)
            regs == FetchRegs
        IN  /\ Opcode(ins) = OP_STR
            /\ Commit(ins, regs,
                      mem_write(FetchMem(k), U16(regs[SR1(ins)] + Offset6(ins)), regs[DR(ins)]))

\* OpReserved with the abort() left out: the opcode does nothing.
OpReserved_Nop ==
    /\ Cycling
    /\ \E k \in FetchKeys :
        LET ins == FetchInstr(k)
        IN  /\ Opcode(ins) \in {OP_RES, OP_RTI}
            /\ Commit(ins, FetchRegs, FetchMem(k))

\* case OP_RES, case OP_RTI, default: abort()
OpReserved ==
    /\ Cycling
    /\ \E k \in FetchKeys :
        LET ins == FetchInstr(k)
        IN  /\ Opcode(ins) \in {OP_RES, OP_RTI}
            /\ registers' = FetchRegs
            /\ memory' = FetchMem(k)
            /\ instr' = ins
            /\ steps' = steps + 1
            /\ preRegisters' = registers
            /\ preMemory' = memory
            /\ preOut' = out
            /\ scanned' = {}
            /\ pc' = "abort"
            /\ UNCHANGED <<call, argv, j, running, tio, out, oob, ret>>

\* ------------------------------------------------------------- the traps
\* registers[R_R7] = registers[R_PC], the first statement of case OP_TRAP
TrapRegs == [FetchRegs EXCEPT ![R_R7] = FetchRegs[R_PC]]

\* PutsBytes printing the high byte of each Word instead of the low byte.
RECURSIVE PutsBytes_HighByte(_, _, _)
PutsBytes_HighByte(m, a, end) ==
    IF a >= end THEN << >>
    ELSE <<Shr(MemGet(m, a), 8)>> \o PutsBytes_HighByte(m, a + 1, end)

\* putc((char)*c, stdout) for the Words at a .. end - 1
RECURSIVE PutsBytes(_, _, _)
PutsBytes(m, a, end) ==
    IF a >= end THEN << >>
    ELSE <<MemGet(m, a) % 256>> \o PutsBytes(m, a + 1, end)

\* The two putc of TRAP_PUTSP for the Words at a .. end - 1
RECURSIVE PutspBytes(_, _, _)
PutspBytes(m, a, end) ==
    IF a >= end THEN << >>
    ELSE LET char1 == BitAnd(MemGet(m, a), 255)
             char2 == Shr(MemGet(m, a), 8)
         IN  (IF char2 # 0 THEN <<char1, char2>> ELSE <<char1>>)
             \o PutspBytes(m, a + 1, end)

\* registers[R_R0] = (uint16_t)getchar(); update_flags(R_R0)
TrapGETC ==
    /\ Cycling
    /\ \E k \in FetchKeys, ch \in InChars :
        LET ins == FetchInstr(k)
        IN  /\ Opcode(ins) = OP_TRAP /\ TrapVector(ins) = TRAP_GETC
            /\ CommitTrap(ins, SetAndFlag(TrapRegs, R_R0, U16(ch)), FetchMem(k),
                          out, running, oob)

\* TrapOUT with the update_flags(R_R0) of TRAP_GETC pasted in.
TrapOUT_Flags ==
    /\ Cycling
    /\ \E k \in FetchKeys :
        LET ins == FetchInstr(k)
        IN  /\ Opcode(ins) = OP_TRAP /\ TrapVector(ins) = TRAP_OUT
            /\ CommitTrap(ins, [TrapRegs EXCEPT ![R_COND] = update_flags(TrapRegs, R_R0)],
                          FetchMem(k), out \o <<TrapRegs[R_R0] % 256>>, running, oob)

\* putc((char)registers[R_R0], stdout)
TrapOUT ==
    /\ Cycling
    /\ \E k \in FetchKeys :
        LET ins == FetchInstr(k)
        IN  /\ Opcode(ins) = OP_TRAP /\ TrapVector(ins) = TRAP_OUT
            /\ CommitTrap(ins, TrapRegs, FetchMem(k),
                          out \o <<TrapRegs[R_R0] % 256>>, running, oob)

\* c = memory + registers[R_R0]; while (*c) { putc((char)*c, stdout); ++c; }
\* A scan that meets no zero Word up to memory[65535] goes on reading outside
\* memory[]: what it prints from there is not determined.
TrapPUTS ==
    /\ Cycling
    /\ \E k \in FetchKeys, tail \in IndetTail :
        LET ins == FetchInstr(k)
            mem == FetchMem(k)
            end == ScanEnd(mem, TrapRegs[R_R0])
        IN  /\ Opcode(ins) = OP_TRAP /\ TrapVector(ins) = TRAP_PUTS
            /\ end < MAX_MEMORY => tail = << >>
            /\ CommitTrap(ins, TrapRegs, mem,
                          out \o PutsBytes(mem, TrapRegs[R_R0], end) \o tail,
                          running, oob \/ end = MAX_MEMORY)

\* printf(prompt); char in_c = getchar(); putc(in_c, stdout);
\* registers[R_R0] = (uint16_t)c; update_flags(R_R0): c is the uint16_t* of
\* the string traps, not assigned in this pass of the loop (any Word).
TrapIN ==
    /\ Cycling
    /\ \E k \in FetchKeys, in_c \in InChars, c \in IndetWords :
        LET ins == FetchInstr(k)
        IN  /\ Opcode(ins) = OP_TRAP /\ TrapVector(ins) = TRAP_IN
            /\ CommitTrap(ins, SetAndFlag(TrapRegs, R_R0, c), FetchMem(k),
                          out \o Prompt \o <<in_c % 256>>, running, oob)

TrapPUTSP ==
    /\ Cycling
    /\ \E k \in FetchKeys, tail \in IndetTail :
        LET ins == FetchInstr(k)
            mem == FetchMem(k)
            end == ScanEnd(mem, TrapRegs[R_R0])
        IN  /\ Opcode(ins) = OP_TRAP /\ TrapVector(ins) = TRAP_PUTSP
            /\ end < MAX_MEMORY => tail = << >>
            /\ CommitTrap(ins, TrapRegs, mem,
                          out \o PutspBytes(mem, TrapRegs[R_R0], end) \o tail,
                          running, oob \/ end = MAX_MEMORY)

\* TrapHALT with running = 0 left out.
TrapHALT_KeepsRunning ==
    /\ Cycling
    /\ \E k \in FetchKeys :
        LET ins == FetchInstr(k)
        IN  /\ Opcode(ins) = OP_TRAP /\ TrapVector(ins) = TRAP_HALT
            /\ CommitTrap(ins, TrapRegs, FetchMem(k), out \o HaltMsg, running, oob)

\* puts("HALT"); fflush(stdout); running = 0
TrapHALT ==
    /\ Cycling
    /\ \E k \in FetchKeys :
        LET ins == FetchInstr(k)
        IN  /\ Opcode(ins) = OP_TRAP /\ TrapVector(ins) = TRAP_HALT
            /\ CommitTrap(ins, TrapRegs, FetchMem(k), out \o HaltMsg, 0, oob)

\* TrapOther with an unknown vector treated as fatal: running = 0.
TrapOther_Stops ==
    /\ Cycling
    /\ \E k \in FetchKeys :
        LET ins == FetchInstr(k)
        IN  /\ Opcode(ins) = OP_TRAP
            /\ TrapVector(ins) \notin {TRAP_GETC, TRAP_OUT, TRAP_PUTS, TRAP_IN,
                                       TRAP_PUTSP, TRAP_HALT}
            /\ CommitTrap(ins, TrapRegs, FetchMem(k), out, 0, oob)

\* A vector the inner switch has no case for.
TrapOther ==
    /\ Cycling
    /\ \E k \in FetchKeys :
        LET ins == FetchInstr(k)
        IN  /\ Opcode(ins) = OP_TRAP
            /\ TrapVector(ins) \notin {TRAP_GETC, TRAP_OUT, TRAP_PUTS, TRAP_IN,
                                       TRAP_PUTSP, TRAP_HALT}
            /\ CommitTrap(ins, TrapRegs, FetchMem(k), out, running, oob)

\* ----------------------------------------------------- the ends of main
\* while (running) fails: restore_input_buffering(), return from main
LoopExit ==
    /\ pc = "loop" /\ running = 0
    /\ tio' = "original"
    /\ pc' = "done"
    /\ UNCHANGED <<call, preOut, scanned, argv, j, memory, registers, running, out, oob, instr, steps,
                   preRegisters, preMemory, ret>>

\* SIGINT: handle_interrupt restores the terminal, prints "\n", exit(-2)
Interrupt ==
    /\ pc = "loop"
    /\ tio' = "original"
    /\ out' = out \o <<10>>
    /\ pc' = "interrupted"
    /\ UNCHANGED <<call, preOut, scanned, argv, j, memory, registers, running, oob, instr, steps,
                   preRegisters, preMemory, ret>>

Next ==
    \/ Usage \/ ReadImage \/ ReadImageFails \/ Start
    \/ OpADD \/ OpAND \/ OpNOT \/ OpBR \/ OpJMP \/ OpJSR
    \/ OpLD \/ OpLDI \/ OpLDR \/ OpLEA \/ OpST \/ OpSTI \/ OpSTR
    \/ OpReserved
    \/ TrapGETC \/ TrapOUT \/ TrapPUTS \/ TrapIN \/ TrapPUTSP \/ TrapHALT
    \/ TrapOther
    \/ LoopExit \/ Interrupt

Spec == Init /\ [][Next]_vars

\* ------------------------------------------------- single helper calls
\* The helper functions called on their own, one call per behaviour: call
\* holds the arguments, and after the call the result.
ACall(fn, x, bit_count, m, address, k) ==
    [fn |-> fn, x |-> x, bit_count |-> bit_count, m |-> m, address |-> address,
     k |-> k, done |-> FALSE, val |-> 0, mem |-> << >>]

\* The widths main calls sign_extend with, and every value of that width.
SignExtendCalls ==
    { ACall("sign_extend", x, bit_count, << >>, 0, NoKey) :
        x \in 0..2047, bit_count \in {5, 6, 9, 11} }

\* Memories to read from: empty, a program Word, and the keyboard registers
\* as earlier polls can have left them.
ReadMemories ==
    { << >>,
      (PC_START :> 61477),
      (MR_KBSR :> 32768) @@ (MR_KBDR :> 66),
      (MR_KBDR :> 66) @@ (65535 :> 7) }

MemReadCalls ==
    { ACall("mem_read", 0, 0, m, address, k) :
        m \in ReadMemories,
        address \in {0, PC_START, MR_KBSR, MR_KBDR, 65535},
        k \in Keys }

InitCalls ==
    /\ call \in { c \in SignExtendCalls : c.x < 2 ^ c.bit_count } \cup MemReadCalls
    /\ argv = << >>
    /\ j = 1
    /\ memory = << >>
    /\ registers = [r \in 0..(R_COUNT - 1) |-> 0]
    /\ running = 0
    /\ pc = "load"
    /\ tio = "original"
    /\ out = << >>
    /\ oob = FALSE
    /\ instr = -1
    /\ steps = 0
    /\ preRegisters = [r \in 0..(R_COUNT - 1) |-> 0]
    /\ preMemory = << >>
    /\ preOut = << >>
    /\ scanned = {}
    /\ ret = NoRet

CallSignExtend ==
    /\ call.fn = "sign_extend" /\ ~call.done
    /\ call' = [call EXCEPT !.done = TRUE,
                            !.val = sign_extend(call.x, call.bit_count)]
    /\ UNCHANGED <<argv, j, memory, registers, running, pc, tio, out, oob, instr,
                   steps, preRegisters, preMemory, preOut, scanned, ret>>

CallMemRead ==
    /\ call.fn = "mem_read" /\ ~call.done
    /\ call' = [call EXCEPT !.done = TRUE,
                            !.val = mem_read(call.m, call.address, call.k),
                            !.mem = mem_read_mem(call.m, call.address, call.k)]
    /\ UNCHANGED <<argv, j, memory, registers, running, pc, tio, out, oob, instr,
                   steps, preRegisters, preMemory, preOut, scanned, ret>>

NextCalls == CallSignExtend \/ CallMemRead

SpecCalls == InitCalls /\ [][NextCalls]_vars

\* =========================================================== properties
\* An instruction has been fetched, and instr is it.
Fetched == instr # -1

\* The address the last instruction was fetched from.
FetchedAt == preRegisters[R_PC]

\* The flag for a Word read as a signed 16-bit number.
SignFlag(v) == IF v = 0 THEN FL_ZRO ELSE IF v >= 32768 THEN FL_NEG ELSE FL_POS

FlagOps == {OP_ADD, OP_AND, OP_NOT, OP_LD, OP_LDI, OP_LDR, OP_LEA}
FrameOps == {OP_ST, OP_STI, OP_STR, OP_BR, OP_JMP, OP_JSR}
InLoop == pc \in {"loop", "done", "abort", "interrupted"}

\* C1: after ADD, AND, NOT, LD, LDI, LDR or LEA, COND is the one of POS, ZRO,
\* NEG that matches the signed value then held in the destination register.
C1_FlagsMatchDestination ==
    (Fetched /\ Opcode(instr) \in FlagOps)
        => registers[R_COND] = SignFlag(registers[DR(instr)])

\* An ADD has wrapped R0 from 0 to 0xFFFF and turned COND from ZRO to NEG.
C1_Witness ==
    /\ Fetched /\ Opcode(instr) = OP_ADD
    /\ preRegisters[R_COND] = FL_ZRO
    /\ registers[DR(instr)] = 65535
    /\ registers[R_COND] = FL_NEG

\* C2: ST, STI, STR, BR, JMP and JSR/JSRR leave COND as it was.
C2_FrameOpsKeepCond ==
    (Fetched /\ Opcode(instr) \in FrameOps)
        => registers[R_COND] = preRegisters[R_COND]

\* A ST ran with COND = POS while the register it stores holds 0.
C2_Witness ==
    /\ Fetched /\ Opcode(instr) = OP_ST
    /\ registers[DR(instr)] = 0
    /\ preRegisters[R_COND] = FL_POS
    /\ registers[R_COND] = FL_POS

\* C3 as claimed: no TRAP, whatever its vector, alters COND.
C3_TrapKeepsCond ==
    (Fetched /\ Opcode(instr) = OP_TRAP)
        => registers[R_COND] = preRegisters[R_COND]

\* C3 as amended: a TRAP whose vector is neither GETC nor IN leaves COND as it
\* was; GETC and IN set COND from the sign of the value they leave in R0.
C3_TrapCond ==
    (Fetched /\ Opcode(instr) = OP_TRAP)
        => IF TrapVector(instr) \in {TRAP_GETC, TRAP_IN}
           THEN registers[R_COND] = SignFlag(registers[R_R0])
           ELSE registers[R_COND] = preRegisters[R_COND]

\* A TRAP OUT ran with COND = POS while R0 holds 0.
C3_Witness ==
    /\ Fetched /\ Opcode(instr) = OP_TRAP /\ TrapVector(instr) = TRAP_OUT
    /\ registers[R_R0] = 0
    /\ preRegisters[R_COND] = FL_POS
    /\ registers[R_COND] = FL_POS

\* C4: in the execution loop COND always has exactly one of the bits POS (1),
\* ZRO (2), NEG (4) set and no other bit.
C4_CondOneHot ==
    InLoop => registers[R_COND] \in {1, 2, 4}

\* Two instructions have run and COND has moved from ZRO to NEG to POS.
C4_Witness ==
    /\ pc = "loop" /\ steps >= 2
    /\ preRegisters[R_COND] = FL_NEG
    /\ registers[R_COND] = FL_POS

\* C5: JMP sets PC to exactly the value held in its base register, whatever
\* the address the JMP was fetched from.
C5_JmpAbsolute ==
    (Fetched /\ Opcode(instr) = OP_JMP)
        => registers[R_PC] = preRegisters[SR1(instr)]

\* C6: JSR/JSRR fetched at A sets R7 to A + 1; with bit 11 set PC becomes
\* A + 1 + sign_extend(pcoffset11, 11), with bit 11 clear PC becomes the value
\* held in the base register.
C6_JsrLinksAndJumps ==
    (Fetched /\ Opcode(instr) = OP_JSR)
        => /\ registers[R_R7] = (FetchedAt + 1) % 65536
           /\ registers[R_PC] =
                IF (instr \div 2048) % 2 = 1
                THEN (FetchedAt + 1 + sign_extend(instr % 2048, 11)) % 65536
                ELSE preRegisters[SR1(instr)]

\* C7: after a JSR/JSRR fetched at A, with R7 not written since, JMP R7 sets
\* PC to A + 1.
C7_ReturnRoundTrip ==
    (Fetched /\ Opcode(instr) = OP_JMP /\ SR1(instr) = R_R7 /\ ret # NoRet)
        => registers[R_PC] = ret

\* C8: LDI with Memory[PC + sign_extend(off, 9)] = X and Memory[X] = Y leaves
\* Y in the destination register (PC the incremented program counter; stated
\* for the reads that do not touch the keyboard status register).
C8_LdiDoubleIndirect ==
    (Fetched /\ Opcode(instr) = OP_LDI)
        => LET a == (FetchedAt + 1 + sign_extend(instr % 512, 9)) % 65536
               X == MemGet(preMemory, a)
               Y == MemGet(preMemory, X)
           IN  (FetchedAt # MR_KBSR /\ a # MR_KBSR /\ X # MR_KBSR)
                   => registers[DR(instr)] = Y

\* The execution loop has stopped on TRAP HALT.
Halted == InLoop /\ running = 0

\* C9: TRAP HALT takes the loop from RUNNING to HALTED, and from there on no
\* instruction is fetched and no register or memory Word changes.
C9_HaltStops ==
    [][ /\ (steps' = steps + 1 /\ Opcode(instr') = OP_TRAP
                /\ TrapVector(instr') = TRAP_HALT)
            => (running = 1 /\ running' = 0 /\ pc' = "loop")
        /\ Halted
            => (Halted' /\ UNCHANGED <<registers, memory, instr, steps>>)
      ]_vars

\* The loop stopped on TRAP HALT and main has returned since.
C9_Witness ==
    /\ Fetched /\ Opcode(instr) = OP_TRAP /\ TrapVector(instr) = TRAP_HALT
    /\ running = 0
    /\ pc = "done"

\* C10 as claimed: a fetched RTI or RES aborts the loop with no slot of the
\* register file (R0-R7, PC, COND) and no memory Word changed.
C10_AbortChangesNothing ==
    (Fetched /\ Opcode(instr) \in {OP_RTI, OP_RES})
        => /\ pc = "abort"
           /\ registers = preRegisters
           /\ memory = preMemory

\* C10 as amended: a fetched RTI or RES aborts the loop (and nothing else
\* does); at the abort R0-R7 and COND are unchanged, PC has been advanced by
\* one by the fetch, and memory is unchanged unless the instruction was
\* fetched from the keyboard status address, whose read rewrites only the
\* keyboard status and data Words.
C10_AbortAfterFetch ==
    /\ (Fetched /\ Opcode(instr) \in {OP_RTI, OP_RES})
        => /\ pc = "abort"
           /\ \A r \in (0..7) \cup {R_COND} : registers[r] = preRegisters[r]
           /\ registers[R_PC] = (FetchedAt + 1) % 65536
           /\ FetchedAt # MR_KBSR => memory = preMemory
           /\ \A a \in (DOMAIN memory \cup DOMAIN preMemory) \ {MR_KBSR, MR_KBDR} :
                  MemGet(memory, a) = MemGet(preMemory, a)
    /\ pc = "abort" => (Fetched /\ Opcode(instr) \in {OP_RTI, OP_RES})

\* A RES fetched as the second instruction has aborted the loop, after a
\* first instruction that left R0, R7 or COND changed.
C10_Witness ==
    /\ pc = "abort" /\ Opcode(instr) = OP_RES /\ steps = 2
    /\ registers[R_COND] # FL_ZRO

\* C11: the loop leaves RUNNING only by TRAP HALT or by a reserved opcode
\* (RTI, RES); after any other instruction, a TRAP with a vector outside
\* 0x20-0x25 included, running is still 1 and main is still in the loop (or
\* has been stopped from outside by SIGINT), so the loop goes on to fetch.
C11_OnlyHaltOrReservedStop ==
    /\ pc = "abort" => (Fetched /\ Opcode(instr) \in {OP_RTI, OP_RES})
    /\ Halted
        => (Fetched /\ Opcode(instr) = OP_TRAP /\ TrapVector(instr) = TRAP_HALT)
    /\ (/\ Fetched
        /\ Opcode(instr) \notin {OP_RTI, OP_RES}
        /\ ~(Opcode(instr) = OP_TRAP /\ TrapVector(instr) = TRAP_HALT))
        => (running = 1 /\ pc \in {"loop", "interrupted"})

\* Two TRAPs with a vector the inner switch has no case for have run, and the
\* loop is still running.
C11_Witness ==
    /\ pc = "loop" /\ running = 1 /\ steps = 2
    /\ Opcode(instr) = OP_TRAP /\ TrapVector(instr) = 0
    /\ preRegisters[R_R7] = (PC_START + 1) % 65536

\* C12: for bit_count in {5, 6, 9, 11} and 0 <= x < 2^bit_count,
\* sign_extend(x, bit_count) is x when bit bit_count - 1 of x is 0 and
\* x + 2^16 - 2^bit_count when it is 1.
C12_SignExtend ==
    (call.fn = "sign_extend" /\ call.done)
        => call.val =
             IF call.x < 2 ^ (call.bit_count - 1)
             THEN call.x
             ELSE call.x + 65536 - 2 ^ call.bit_count

\* sign_extend(0b11111, 5) has returned 0xFFFF.
C12_Witness ==
    /\ call.fn = "sign_extend" /\ call.done
    /\ call.x = 31 /\ call.bit_count = 5
    /\ call.val = 65535

\* The bitwise and of two Words, bit by bit.
AndBits(a, b) ==
    LET Bit(i) == IF (a \div 2 ^ i) % 2 = 1 /\ (b \div 2 ^ i) % 2 = 1 THEN 2 ^ i ELSE 0
    IN  Bit(0) + Bit(1) + Bit(2) + Bit(3) + Bit(4) + Bit(5) + Bit(6) + Bit(7)
        + Bit(8) + Bit(9) + Bit(10) + Bit(11) + Bit(12) + Bit(13) + Bit(14) + Bit(15)

\* The operand of the last ADD or AND: the 5-bit immediate as a signed
\* number (mod 2^16) when bit 5 is set, else the value register src2 held.
SecondOperand ==
    IF (instr \div 32) % 2 = 1
    THEN (IF instr % 32 < 16 THEN instr % 32 ELSE (instr % 32) + 65504)
    ELSE preRegisters[instr % 8]

\* C13: ADD writes (src1 + operand) mod 2^16 and AND writes src1 and-ed with
\* operand to the destination register; ADD R0, R0, #1 with R0 = 0xFFFF
\* yields R0 = 0 and COND = ZRO.
C13_AddAndWrap ==
    /\ (Fetched /\ Opcode(instr) = OP_ADD)
        => registers[DR(instr)] = (preRegisters[SR1(instr)] + SecondOperand) % 65536
    /\ (Fetched /\ Opcode(instr) = OP_AND)
        => registers[DR(instr)] = AndBits(preRegisters[SR1(instr)], SecondOperand)
    /\ (Fetched /\ instr = 4129 /\ preRegisters[R_R0] = 65535)
        => (registers[R_R0] = 0 /\ registers[R_COND] = FL_ZRO)

\* ADD R0, R0, #1 has run with R0 = 0xFFFF and left R0 = 0, COND = ZRO.
C13_Witness ==
    /\ Fetched /\ instr = 4129
    /\ preRegisters[R_R0] = 65535 /\ preRegisters[R_COND] = FL_NEG
    /\ registers[R_R0] = 0 /\ registers[R_COND] = FL_ZRO

\* memory is preMemory but for the keyboard status and data Words, which the
\* fetch rewrites when, and only when, it reads the keyboard status address.
OnlyFetchTouchedMemory ==
    /\ FetchedAt # MR_KBSR => memory = preMemory
    /\ \A a \in (DOMAIN memory \cup DOMAIN preMemory) \ {MR_KBSR, MR_KBDR} :
           MemGet(memory, a) = MemGet(preMemory, a)

\* C14: BR fetched at A with mask m and offset off9 sets PC to
\* A + 1 + sign_extend(off9, 9) iff (m AND COND) is non-zero and else leaves
\* PC at A + 1; no general register, COND or memory Word is changed by it.
C14_BranchIffMaskMeetsCond ==
    (Fetched /\ Opcode(instr) = OP_BR)
        => LET m == (instr \div 512) % 8
               off9 == instr % 512
               target == IF off9 < 256 THEN FetchedAt + 1 + off9
                         ELSE FetchedAt + 1 + off9 - 512
           IN  /\ registers[R_PC] =
                    IF AndBits(m, preRegisters[R_COND]) # 0
                    THEN target % 65536
                    ELSE (FetchedAt + 1) % 65536
               /\ \A r \in (0..7) \cup {R_COND} : registers[r] = preRegisters[r]
               /\ OnlyFetchTouchedMemory

\* BRnp #-2 has run with COND = NEG and taken PC back to A - 1.
C14_Witness ==
    /\ Fetched /\ instr = 3070
    /\ preRegisters[R_COND] = FL_NEG
    /\ registers[R_PC] = FetchedAt - 1

\* The last instruction was TRAP PUTS and there is a zero Word at or after R0.
PutsTerminated ==
    /\ Fetched /\ pc = "loop"
    /\ Opcode(instr) = OP_TRAP /\ TrapVector(instr) = TRAP_PUTS
    /\ \E z \in registers[R_R0]..65535 : MemGet(memory, z) = 0

\* The address of the first zero Word at or after a.
Terminator(a) ==
    CHOOSE z \in a..65535 :
        /\ MemGet(memory, z) = 0
        /\ \A y \in a..(z - 1) : MemGet(memory, y) # 0

\* C15: TRAP PUTS with R0 = a emits, in order, exactly the low bytes of
\* Memory[a], Memory[a+1], ... up to but not including the first zero Word,
\* and reads no Word beyond that zero Word.
C15_PutsStopsAtTerminator ==
    PutsTerminated
        => LET a == registers[R_R0]
               z == Terminator(a)
           IN  /\ out = preOut \o [i \in 1..(z - a) |-> MemGet(memory, a + i - 1) % 256]
               /\ scanned = a..z

\* TRAP PUTS has printed "HI" from the Words 0x4948, 0x0049, 0 at address 1.
C15_Witness ==
    /\ PutsTerminated
    /\ registers[R_R0] = 1
    /\ MemGet(memory, 1) = 18760 /\ MemGet(memory, 2) = 73
    /\ out = <<72, 73>>
    /\ scanned = 1..3

\* C16: loading an image with origin o and n data Words stores data Word i
\* at Memory[o + i] for every i < min(n, 65536 - o), for every origin o
\* (0 included), and writes no Word outside the 65536-Word memory (stated of
\* the memory right after the first image is loaded).
C16_LoadStoresEveryWord ==
    (pc = "load" /\ j = 2)
        => LET o == argv[1].origin
               n == Len(argv[1].data)
               count == IF n < 65536 - o THEN n ELSE 65536 - o
           IN  /\ \A i \in 0..(count - 1) : MemGet(memory, o + i) = argv[1].data[i + 1]
               /\ DOMAIN memory \subseteq 0..65535

\* C17: a read of the keyboard status address returns a Word with bit 15 set
\* iff a key is available, and then the keyboard data address holds the
\* polled character; a read of any other address returns the stored Word and
\* changes no memory Word.
C17_KeyboardStatusRead ==
    (call.fn = "mem_read" /\ call.done)
        => IF call.address = MR_KBSR
           THEN /\ (call.val \div 32768) % 2 = 1 <=> call.k # NoKey
                /\ call.k # NoKey => MemGet(call.mem, MR_KBDR) = call.k % 65536
           ELSE /\ call.val = MemGet(call.m, call.address)
                /\ call.mem = call.m

\* The status address was read with no key waiting while the status Word
\* still had bit 15 set from an earlier poll: the read returned 0.
C17_Witness ==
    /\ call.fn = "mem_read" /\ call.done
    /\ call.address = MR_KBSR /\ call.k = NoKey
    /\ MemGet(call.m, MR_KBSR) = 32768
    /\ call.val = 0

\* C18: after TRAP IN has read character ch (the byte it echoes last), R0
\* holds ch and COND reflects the sign of that value.
C18_InStoresCharacter ==
    (/\ Fetched /\ pc = "loop"
     /\ Opcode(instr) = OP_TRAP /\ TrapVector(instr) = TRAP_IN
     /\ out[Len(out)] < 255)
        => /\ registers[R_R0] = out[Len(out)]
           /\ registers[R_COND] = SignFlag(out[Len(out)])

\* The address STI takes its pointer from: PC + sign_extend(off9, 9), PC the
\* incremented program counter.
StiPointer ==
    LET off9 == instr % 512
    IN  (FetchedAt + 1 + (IF off9 < 256 THEN off9 ELSE off9 + 65024)) % 65536

\* C19: STI writes the value of its source register to the address held in
\* Memory[PC + sign_extend(off9, 9)] and changes no other memory Word and no
\* general register (stated for the reads that do not touch the keyboard
\* status register).
C19_StiWritesThroughPointer ==
    (Fetched /\ Opcode(instr) = OP_STI /\ FetchedAt # MR_KBSR /\ StiPointer # MR_KBSR)
        => LET address == MemGet(preMemory, StiPointer)
               value == preRegisters[(instr \div 512) % 8]
           IN  /\ MemGet(memory, address) = value
               /\ \A a \in (DOMAIN memory \cup DOMAIN preMemory) \ {address} :
                      MemGet(memory, a) = MemGet(preMemory, a)
               /\ \A r \in 0..7 : registers[r] = preRegisters[r]

\* NOT R0, R0 ; STI R0, #0 has run: the pointer Word after the image holds
\* 0, so address 0 now holds 0xFFFF and the image's Words are as loaded.
C19_Witness ==
    /\ Fetched /\ Opcode(instr) = OP_STI /\ FetchedAt = PC_START + 1
    /\ preRegisters[R_R0] = 65535
    /\ MemGet(preMemory, StiPointer) = 0
    /\ MemGet(preMemory, 0) = 0
    /\ MemGet(memory, 0) = 65535
    /\ MemGet(memory, PC_START) = OP_NOT * 4096 + 63

\* C20: the terminator scan of TRAP PUTS and TRAP PUTSP reads only indices
\* 0..65535 of memory.
C20_ScanStaysInMemory ==
    \A a \in scanned : a < MAX_MEMORY

====
